---- MODULE Spec2Model ----
(***************************************************************************)
(* A model of simple-file-server: the bounded TTL/LRU map (cache_map.rs),  *)
(* the sandboxed path resolution and the filesystem store (file_store.rs)  *)
(* and the request handlers (routes/serve_files.rs, routes/upload_file.rs).*)
(*                                                                         *)
(* The specifications of the module share its variables:                  *)
(*   SpecCache  one CacheMap driven by arbitrary get/insert calls          *)
(*   SpecPath   path resolution applied to arbitrary roots and inputs      *)
(*   SpecStore  the FileStorageCore operations, one after the other        *)
(*   Spec       the server: filesystem, both caches, the three handlers    *)
(*   SpecConc   requests in flight together, stepping through their locks  *)
(*   SpecIter   the byte iterators pulled item by item                     *)
(*   SpecRace   GET requests and uploads of one path, call by call         *)
(* and SpecUpload, SpecLinks, SpecNames, SpecServe vary the roots, files   *)
(* and request paths the store and the server are driven with.             *)
(***************************************************************************)
EXTENDS Integers, Sequences, FiniteSets, TLC

VARIABLES
    cm,           \* SpecCache: the CacheMap under test
    ret,          \* SpecCache: what the last CacheMap call was and returned
    inserted_at,  \* SpecCache: for each key present, the instant of its last insert
    clock,        \* Instant::now(), shared by SpecCache and Spec
    p_base,       \* SpecPath: the root handed to path resolution
    p_input,      \* SpecPath: the user-supplied path
    p_out,        \* SpecPath: what resolution returned
    base_path,    \* the configured root (FileSource::Local.base_dir)
    config,       \* ServerConfig.memory_cache
    fs,           \* the filesystem: files (location -> bytes) and directories
    store_cache,  \* FsFileStore.cache: resolved path -> StoredFile
    file_cache,   \* FileCache: resolved path -> CachedFileEntry
    resp,         \* the last request and its response
    reqs,         \* SpecConc: the requests in flight, each with its position
    locks,        \* SpecConc: who holds the byte cache's and the store cache's lock
    iter,         \* SpecIter: a byte sequence being pulled from a source
    unlinked      \* SpecRace: the content of files still open after their name was removed

cacheVars == <<cm, ret, inserted_at>>
pathVars == <<p_base, p_input, p_out>>
serverVars == <<base_path, config, fs, store_cache, file_cache, resp>>
stepVars == <<reqs, locks, iter, unlinked>>
vars == <<cm, ret, inserted_at, clock, p_base, p_input, p_out,
          base_path, config, fs, store_cache, file_cache, resp, reqs, locks, iter, unlinked>>

(***************************************************************************)
(* Option<T>: None is the empty tuple, Some(x) the one-element tuple.      *)
(***************************************************************************)
None == <<>>
Some(x) == <<x>>
IsSome(o) == o # <<>>
Unwrap(o) == o[1]

(***************************************************************************)
(* Bounds of the model.                                                    *)
(***************************************************************************)
MaxTime == 3      \* the clock runs 0..MaxTime
MaxCap == 2       \* max_size ranges over 0..MaxCap in SpecCache
MaxTtl == 2       \* default_ttl ranges over 0..MaxTtl in SpecCache

Keys == {"k1", "k2", "k3"}
Vals == {"v1", "v2"}

(***************************************************************************)
(* cache_map.rs                                                            *)
(***************************************************************************)
\* HashMap::remove
MapRemove(f, key) == [k \in DOMAIN f \ {key} |-> f[k]]

\* HashMap::insert (adds or replaces)
MapInsert(f, key, e) == [k \in DOMAIN f \cup {key} |-> IF k = key THEN e ELSE f[k]]

EmptyMap == [k \in {} |-> None]

\* CacheMap::new().with_ttl(ttl).with_max_size(max_size)
CacheMap_new(ttl, max_size) ==
    [inner |-> EmptyMap, default_ttl |-> ttl, max_size |-> max_size]

\* CacheMap::get with the expiry test written t > expires_at
CacheMap_get_late(c, key, t) ==
    IF key \in DOMAIN c.inner /\ t > c.inner[key].expires_at
    THEN [cache |-> [c EXCEPT !.inner = MapRemove(c.inner, key)], value |-> None]
    ELSE IF key \in DOMAIN c.inner
    THEN [cache |-> [c EXCEPT !.inner[key].last_accessed = t],
          value |-> Some(c.inner[key].inner)]
    ELSE [cache |-> c, value |-> None]

\* CacheMap::get with a hit that also pushes expires_at to t + default_ttl
CacheMap_get_sliding(c, key, t) ==
    IF key \in DOMAIN c.inner /\ t >= c.inner[key].expires_at
    THEN [cache |-> [c EXCEPT !.inner = MapRemove(c.inner, key)], value |-> None]
    ELSE IF key \in DOMAIN c.inner
    THEN [cache |-> [c EXCEPT !.inner[key].last_accessed = t,
                              !.inner[key].expires_at = t + c.default_ttl],
          value |-> Some(c.inner[key].inner)]
    ELSE [cache |-> c, value |-> None]

\* CacheMap::get at instant t: the cache afterwards and the returned Option
CacheMap_get(c, key, t) ==
    IF key \in DOMAIN c.inner /\ t >= c.inner[key].expires_at
    THEN [cache |-> [c EXCEPT !.inner = MapRemove(c.inner, key)], value |-> None]
    ELSE IF key \in DOMAIN c.inner
    THEN [cache |-> [c EXCEPT !.inner[key].last_accessed = t],
          value |-> Some(c.inner[key].inner)]
    ELSE [cache |-> c, value |-> None]

\* CacheMap::evict_lru with max_by_key in place of min_by_key
CacheMap_evict_mru(c) ==
    IF DOMAIN c.inner = {}
    THEN {c}
    ELSE {[c EXCEPT !.inner = MapRemove(c.inner, k)] :
            k \in {k \in DOMAIN c.inner :
                     \A j \in DOMAIN c.inner :
                        c.inner[k].last_accessed >= c.inner[j].last_accessed}}

\* CacheMap::evict_lru: min_by_key over the HashMap's iteration order, which is
\* arbitrary, so any entry of minimal last_accessed may be the one removed
CacheMap_evict_lru(c) ==
    IF DOMAIN c.inner = {}
    THEN {c}
    ELSE {[c EXCEPT !.inner = MapRemove(c.inner, k)] :
            k \in {k \in DOMAIN c.inner :
                     \A j \in DOMAIN c.inner :
                        c.inner[k].last_accessed <= c.inner[j].last_accessed}}

\* CacheMap::insert at instant t: the possible outcomes, each with the keys the
\* eviction step removed
CacheMap_insert(c, key, value, t) ==
    LET entry == [inner |-> value, last_accessed |-> t, expires_at |-> t + c.default_ttl]
        evicted == IF Cardinality(DOMAIN c.inner) >= c.max_size
                   THEN CacheMap_evict_lru(c)
                   ELSE {c}
    IN  {[cache |-> [mid EXCEPT !.inner = MapInsert(mid.inner, key, entry)],
          evicted |-> DOMAIN c.inner \ DOMAIN mid.inner] : mid \in evicted}

(***************************************************************************)
(* SpecCache: one CacheMap, any max_size and ttl, any calls.               *)
(***************************************************************************)
NoRet == [op |-> "none", key |-> "", value |-> None, pre |-> None,
          len |-> 0, evicted |-> {}]

IdlePath == p_base = None /\ p_input = None /\ p_out = None

IdleSteps == reqs = None /\ locks = None /\ iter = None /\ unlinked = None

IdleServer ==
    /\ base_path = <<>>
    /\ config = [enabled |-> FALSE, max_size_bytes |-> 0]
    /\ fs = [files |-> EmptyMap, dirs |-> {}, links |-> EmptyMap]
    /\ store_cache = CacheMap_new(0, 0)
    /\ file_cache = CacheMap_new(0, 0)
    /\ resp = None

InitCache ==
    /\ \E ttl \in 0..MaxTtl, max_size \in 0..MaxCap : cm = CacheMap_new(ttl, max_size)
    /\ ret = NoRet
    /\ inserted_at = EmptyMap
    /\ clock = 0
    /\ IdlePath
    /\ IdleSteps
    /\ IdleServer

\* ret.pre is the key's entry before the call, ret.len the entry count before it
CacheGet(key) ==
    LET r == CacheMap_get(cm, key, clock) IN
    /\ cm' = r.cache
    /\ ret' = [op |-> "get", key |-> key, value |-> r.value,
               pre |-> IF key \in DOMAIN cm.inner THEN Some(cm.inner[key]) ELSE None,
               len |-> Cardinality(DOMAIN cm.inner), evicted |-> {}]
    /\ inserted_at' = [k \in DOMAIN r.cache.inner |-> inserted_at[k]]
    /\ UNCHANGED <<stepVars, clock, pathVars, serverVars>>

CacheInsert(key, value) ==
    \E r \in CacheMap_insert(cm, key, value, clock) :
        /\ cm' = r.cache
        /\ ret' = [op |-> "insert", key |-> key, value |-> Some(value),
                   pre |-> IF key \in DOMAIN cm.inner THEN Some(cm.inner[key]) ELSE None,
                   len |-> Cardinality(DOMAIN cm.inner), evicted |-> r.evicted]
        /\ inserted_at' = [k \in DOMAIN r.cache.inner |->
                              IF k = key THEN clock ELSE inserted_at[k]]
        /\ UNCHANGED <<stepVars, clock, pathVars, serverVars>>

\* time passes between calls
CacheTick ==
    /\ clock < MaxTime
    /\ clock' = clock + 1
    /\ ret' = NoRet
    /\ UNCHANGED <<stepVars, cm, inserted_at, pathVars, serverVars>>

NextCache ==
    \/ \E key \in Keys : CacheGet(key)
    \/ \E key \in Keys, value \in Vals : CacheInsert(key, value)
    \/ CacheTick

SpecCache == InitCache /\ [][NextCache]_vars

(***************************************************************************)
(* Claims about CacheMap, checked under SpecCache.                         *)
(***************************************************************************)
\* C1: after every insert the number of entries is at most max_size, for any
\* max_size and any sequence of insert and get calls.
C1_SizeAtMostMaxSize ==
    ret.op = "insert" => Cardinality(DOMAIN cm.inner) <= cm.max_size

\* C2: get never returns a value whose expires_at is at or before the current
\* time; a get of an expired entry returns None and removes the entry instead
\* of refreshing its last_accessed.
C2_GetNeverReturnsExpired ==
    ret.op = "get" =>
        /\ IsSome(ret.value) =>
                /\ IsSome(ret.pre)
                /\ Unwrap(ret.pre).expires_at > clock
                /\ Unwrap(ret.value) = Unwrap(ret.pre).inner
        /\ (IsSome(ret.pre) /\ Unwrap(ret.pre).expires_at <= clock) =>
                /\ ret.value = None
                /\ ret.key \notin DOMAIN cm.inner

\* a get that found its entry expired
C2_Witness ==
    /\ ret.op = "get"
    /\ IsSome(ret.pre)
    /\ Unwrap(ret.pre).expires_at <= clock
    /\ ret.value = None
    /\ ret.key \notin DOMAIN cm.inner

\* C3: an insert into a cache holding at least max_size entries removes exactly
\* one entry before adding the new one, and that entry's last_accessed is
\* minimal among the entries present.
C3_InsertEvictsOneLru ==
    [][(ret'.op = "insert" /\ Cardinality(DOMAIN cm.inner) >= cm.max_size) =>
          \E k \in DOMAIN cm.inner :
              /\ ret'.evicted = {k}
              /\ \A j \in DOMAIN cm.inner :
                    cm.inner[k].last_accessed <= cm.inner[j].last_accessed]_vars


\* C3 as amended: an insert into a non-empty cache holding at least max_size
\* entries removes exactly one entry, one of minimal last_accessed, before
\* adding the new one; on an empty cache (max_size = 0) there is none to remove.
C3_NonEmptyInsertEvictsOneLru ==
    [][(/\ ret'.op = "insert"
        /\ DOMAIN cm.inner # {}
        /\ Cardinality(DOMAIN cm.inner) >= cm.max_size) =>
          \E k \in DOMAIN cm.inner :
              /\ ret'.evicted = {k}
              /\ \A j \in DOMAIN cm.inner :
                    cm.inner[k].last_accessed <= cm.inner[j].last_accessed]_vars

\* an insert of a new key into a full cache of two entries, one of them
\* refreshed by a later get, evicted the other
C3_Witness ==
    /\ ret.op = "insert"
    /\ ret.len = 2
    /\ ret.len >= cm.max_size
    /\ ret.pre = None
    /\ Cardinality(ret.evicted) = 1
    /\ \E k \in DOMAIN cm.inner :
          k # ret.key /\ cm.inner[k].last_accessed > cm.inner[k].expires_at - cm.default_ttl

\* C21: a successful get changes only the looked-up entry's last_accessed (its
\* value and expires_at and every other entry stay as they were), so every
\* entry expires at its insertion time plus default_ttl and no get returns a
\* value at or after that instant, however often the entry was read before.
C21_GetKeepsExpiry ==
    /\ [][(ret'.op = "get" /\ IsSome(ret'.value)) =>
              /\ ret'.key \in DOMAIN cm.inner
              /\ cm' = [cm EXCEPT !.inner[ret'.key].last_accessed = clock]]_vars
    /\ [](\A k \in DOMAIN cm.inner :
              cm.inner[k].expires_at = inserted_at[k] + cm.default_ttl)
    /\ []((ret.op = "get" /\ IsSome(ret.value)) =>
              clock < inserted_at[ret.key] + cm.default_ttl)

\* a get, at an instant after the insert, returned an entry that an earlier get
\* had already refreshed, while a second entry sat in the cache
C21_Witness ==
    /\ ret.op = "get"
    /\ IsSome(ret.value)
    /\ Unwrap(ret.pre).last_accessed > inserted_at[ret.key]
    /\ clock > inserted_at[ret.key]
    /\ Cardinality(DOMAIN cm.inner) = 2

\* C22: an insert of a key that is already present replaces its value and
\* resets its last_accessed and expires_at, and removes no other key, also
\* when the cache is at capacity.
C22_ReinsertKeepsOthers ==
    (ret.op = "insert" /\ IsSome(ret.pre)) =>
        /\ ret.evicted \subseteq {ret.key}
        /\ Cardinality(DOMAIN cm.inner) = ret.len
        /\ cm.inner[ret.key] = [inner |-> Unwrap(ret.value), last_accessed |-> clock,
                                expires_at |-> clock + cm.default_ttl]

(***************************************************************************)
(* Paths.  A path string is the sequence of its segments as split at the   *)
(* separator, with "/" as first element when the string is absolute:       *)
(* "/etc/passwd" is <<"/", "etc", "passwd">>, "./a/.." is <<".", "a", "..">>.*)
(***************************************************************************)
MaxRootLen == 2     \* segments of a root in SpecPath
MaxInputLen == 3    \* segments of a user-supplied path in SpecPath

Segments == {"..", ".", "a", "b"}

IsAbsolute(p) == Len(p) > 0 /\ p[1] = "/"

IsPrefix(s, t) == Len(s) <= Len(t) /\ SubSeq(t, 1, Len(s)) = s

\* Path::components: a "." is dropped except as the first element of a
\* relative path
RECURSIVE ComponentsFrom(_, _)
ComponentsFrom(p, i) ==
    IF i > Len(p) THEN <<>>
    ELSE IF p[i] = "." /\ i > 1 THEN ComponentsFrom(p, i + 1)
    ELSE <<p[i]>> \o ComponentsFrom(p, i + 1)

Components(p) == ComponentsFrom(p, 1)

\* Path::join: an absolute argument replaces the base
Join(base, path) == IF IsAbsolute(path) THEN path ELSE base \o path

\* path_clean::clean: drop ".", let ".." cancel a preceding normal component,
\* drop ".." directly under the root directory, keep leading ".." of a
\* relative path; the empty result is "."
RECURSIVE CleanFrom(_, _, _)
CleanFrom(comps, i, out) ==
    IF i > Len(comps) THEN out
    ELSE IF comps[i] = "." THEN CleanFrom(comps, i + 1, out)
    ELSE IF comps[i] = ".." THEN
        IF out = <<>> \/ out[Len(out)] = ".."
        THEN CleanFrom(comps, i + 1, Append(out, ".."))
        ELSE IF out[Len(out)] = "/"
        THEN CleanFrom(comps, i + 1, out)
        ELSE CleanFrom(comps, i + 1, SubSeq(out, 1, Len(out) - 1))
    ELSE CleanFrom(comps, i + 1, Append(out, comps[i]))

Clean(p) ==
    LET out == CleanFrom(Components(p), 1, <<>>)
    IN  IF out = <<>> THEN <<".">> ELSE out

\* Path::starts_with: whole components
StartsWith(p, base) == IsPrefix(Components(base), Components(p))

\* Path::file_name: the last component when it is a normal one
FileName(p) ==
    LET c == Components(p) IN
    IF c # <<>> /\ c[Len(c)] \notin {"/", ".", ".."} THEN Some(c[Len(c)]) ELSE None

\* FsFileStore::full_path without the file_name test
full_path_any_name(base, path) ==
    LET combined == Clean(Join(base, path)) IN
    IF StartsWith(combined, base) THEN Some(combined) ELSE None

\* FsFileStore::full_path
full_path(base, path) ==
    LET combined == Clean(Join(base, path)) IN
    IF StartsWith(combined, base) /\ IsSome(FileName(combined))
    THEN Some(combined)
    ELSE None

\* secure_virtual_path
secure_virtual_path(base, user_input) ==
    LET combined == Clean(Join(base, user_input)) IN
    IF StartsWith(combined, base) THEN Some(combined) ELSE None

(***************************************************************************)
(* Where a path leads: the directory chain from the filesystem root that   *)
(* the operating system reaches for it from the working directory (no      *)
(* symbolic links on the way).                                             *)
(***************************************************************************)
Cwd == <<"srv", "app">>

RECURSIVE Walk(_, _, _)
Walk(p, i, at) ==
    IF i > Len(p) THEN at
    ELSE IF p[i] \in {"/", "."} THEN Walk(p, i + 1, at)
    ELSE IF p[i] = ".." THEN
        Walk(p, i + 1, IF at = <<>> THEN at ELSE SubSeq(at, 1, Len(at) - 1))
    ELSE Walk(p, i + 1, Append(at, p[i]))

Location(p) == Walk(p, 1, IF IsAbsolute(p) THEN <<>> ELSE Cwd)

\* p names the root directory or something below it
Within(p, base) == IsPrefix(Location(base), Location(p))

(***************************************************************************)
(* SpecPath: resolution of any input against any root.                     *)
(***************************************************************************)
RECURSIVE SeqsUpTo(_, _)
SeqsUpTo(S, n) ==
    IF n = 0 THEN {<<>>}
    ELSE LET shorter == SeqsUpTo(S, n - 1)
         IN  shorter \cup {Append(s, x) : s \in shorter, x \in S}

PathsUpTo(n) == SeqsUpTo(Segments, n) \cup {<<"/">> \o s : s \in SeqsUpTo(Segments, n)}

NoOut == [fn |-> "none", path |-> None]

IdleCache == cm = CacheMap_new(0, 0) /\ ret = NoRet /\ inserted_at = EmptyMap /\ clock = 0

InitPath ==
    /\ p_base \in PathsUpTo(MaxRootLen)
    /\ p_input \in PathsUpTo(MaxInputLen)
    /\ p_out = NoOut
    /\ IdleCache
    /\ IdleServer
    /\ IdleSteps

ResolveFullPath ==
    /\ p_out' = [fn |-> "full_path", path |-> full_path(p_base, p_input)]
    /\ UNCHANGED <<stepVars, cacheVars, clock, p_base, p_input, serverVars>>

ResolveVirtualPath ==
    /\ p_out' = [fn |-> "secure_virtual_path", path |-> secure_virtual_path(p_base, p_input)]
    /\ UNCHANGED <<stepVars, cacheVars, clock, p_base, p_input, serverVars>>

NextPath == ResolveFullPath \/ ResolveVirtualPath

SpecPath == InitPath /\ [][NextPath]_vars

(***************************************************************************)
(* Claims about path resolution, checked under SpecPath.                   *)
(***************************************************************************)
\* C4: for every root and every user-supplied path, resolution returns None or
\* a normalized path with the root as component-wise prefix, and never a path
\* that leads outside the root.
C4_ResolvedWithinRoot ==
    IsSome(p_out.path) =>
        LET r == Unwrap(p_out.path) IN
        /\ Clean(r) = r
        /\ StartsWith(r, p_base)
        /\ Within(r, p_base)

\* C14: resolution returns None when the normalized path is the root itself
\* (an empty user path, "a/..") or ends in ".."; every accepted path is the
\* root followed by at least one further segment.
C14_RootItselfRejected ==
    IsSome(p_out.path) =>
        LET r == Components(Unwrap(p_out.path)) IN
        /\ IsPrefix(Components(p_base), r)
        /\ Len(r) > Len(Components(p_base))
        /\ r[Len(r)] # ".."

(***************************************************************************)
(* file_store.rs: digests, metadata sidecars, the filesystem.              *)
(* A byte is 0 or 1.  A hex digest is a number: 0 is the empty string, and *)
(* the digest of a byte sequence is 1 + its bijective base-3 numeral, so   *)
(* that different contents have different digests, as with SHA-256.        *)
(***************************************************************************)
BufSize == 2        \* the read buffer ([0u8; 8192]), in bytes of the model

Min(a, b) == IF a <= b THEN a ELSE b

\* Sha256::new
Sha256_new == 0

\* Sha256::update
RECURSIVE Sha256_update(_, _)
Sha256_update(digest, bytes) ==
    IF bytes = <<>> THEN digest
    ELSE Sha256_update(digest * 3 + bytes[1] + 1, Tail(bytes))

\* FileMetadata::hash_to_hex
hash_to_hex(digest) == digest + 1

\* sha256::digest
sha256_digest(bytes) == hash_to_hex(Sha256_update(Sha256_new, bytes))

\* FileMetadata::default
FileMetadata_default == [hash |-> 0, size_bytes |-> 0]

\* serde_json::to_writer of a FileMetadata: the bytes of the JSON object
to_writer(metadata) == <<-1, metadata.hash, metadata.size_bytes, -2>>

\* serde_json::from_reader as FileMetadata: None when the bytes are no such object
from_reader(bytes) ==
    IF Len(bytes) = 4 /\ bytes[1] = -1 /\ bytes[4] = -2
    THEN Some([hash |-> bytes[2], size_bytes |-> bytes[3]])
    ELSE None

\* Read::read into the buffer at offset pos: at most BufSize bytes, <<>> at EOF
ReadChunk(bytes, pos) == SubSeq(bytes, pos + 1, Min(pos + BufSize, Len(bytes)))

METADATA_FILE_EXT == ".metadata.json"

Stems == {"", "a", "b", "api"}

\* str::to_ascii_lowercase on the names of the model
to_ascii_lowercase(name) ==
    CASE name = "A.METADATA.JSON" -> "a.metadata.json"
      [] name = "A" -> "a"
      [] OTHER -> name

\* str::ends_with
ends_with(name, suffix) == \E stem \in Stems : name = stem \o suffix

\* Path::parent of a path that has a file name
Parent(path) == SubSeq(path, 1, Len(path) - 1)

\* metadata_path: the sibling whose name is the file name plus the suffix
metadata_path(path) ==
    LET name == FileName(path) IN
    Parent(path) \o <<(IF IsSome(name) THEN Unwrap(name) ELSE "") \o METADATA_FILE_EXT>>

\* FsFileStore::is_valid_path comparing the name as given, not lowercased
is_valid_path_cased(base, path) ==
    LET name == FileName(path) IN
    IF name = None THEN FALSE
    ELSE IF ends_with(Unwrap(name), METADATA_FILE_EXT) THEN FALSE
    ELSE IF StartsWith(path, Unwrap(full_path(base, <<"api">>))) THEN FALSE
    ELSE TRUE

\* FsFileStore::is_valid_path
is_valid_path(base, path) ==
    LET name == FileName(path) IN
    IF name = None THEN FALSE
    ELSE IF ends_with(to_ascii_lowercase(Unwrap(name)), METADATA_FILE_EXT) THEN FALSE
    ELSE IF StartsWith(path, Unwrap(full_path(base, <<"api">>))) THEN FALSE
    ELSE TRUE

\* where the operating system ends up for a path: a symbolic link as final
\* component is followed to its target (f.links: location -> target location)
Resolve(f, path) ==
    LET at == Location(path) IN
    IF at \in DOMAIN f.links THEN f.links[at] ELSE at

\* Path::is_file, Path::is_dir, Path::exists on filesystem f: all three follow
\* symbolic links; Path::is_symlink looks at the final component itself
is_file(f, path) == Resolve(f, path) \in DOMAIN f.files
is_dir(f, path) == Resolve(f, path) \in f.dirs
path_exists(f, path) == is_file(f, path) \/ is_dir(f, path)
is_symlink(f, path) == Location(path) \in DOMAIN f.links

\* the content File::open(path) reads
Content(f, path) == f.files[Resolve(f, path)]

\* fs::create_dir_all: fails when a regular file is in the way
create_dir_all(f, path) ==
    LET at == Location(path)
        chain == {SubSeq(at, 1, n) : n \in 0..Len(at)}
    IN  IF chain \cap (DOMAIN f.files \cup DOMAIN f.links) # {}
        THEN [ok |-> FALSE, fs |-> f]
        ELSE [ok |-> TRUE, fs |-> [f EXCEPT !.dirs = @ \cup chain]]

\* File::create: creates or truncates, through a symbolic link if the path is
\* one; fails on a directory or a missing parent directory
File_create(f, path) ==
    LET at == Resolve(f, path) IN
    IF at \in f.dirs \/ at = <<>> \/ SubSeq(at, 1, Len(at) - 1) \notin f.dirs
    THEN [ok |-> FALSE, fs |-> f]
    ELSE [ok |-> TRUE, fs |-> [f EXCEPT !.files = MapInsert(@, at, <<>>)]]

\* fs::remove_file: unlinks the name, a symbolic link itself and not its target
remove_file(f, path) ==
    IF is_symlink(f, path)
    THEN [ok |-> TRUE, fs |-> [f EXCEPT !.links = MapRemove(@, Location(path))]]
    ELSE IF Location(path) \in DOMAIN f.files
    THEN [ok |-> TRUE, fs |-> [f EXCEPT !.files = MapRemove(@, Location(path))]]
    ELSE [ok |-> FALSE, fs |-> f]

\* File::write at the end of the open file (the whole chunk is stored)
File_write(f, path, bytes) ==
    [f EXCEPT !.files[Resolve(f, path)] = @ \o bytes]

\* FsFileStore::exists
exists(f, base, path) ==
    LET p == full_path(base, path) IN IsSome(p) /\ is_file(f, Unwrap(p))

\* the transfer loop with the clean-up of the failure branches left out
RECURSIVE upload_loop_keep(_, _, _, _, _, _, _, _)
upload_loop_keep(f, path, src, pos, reads, digest, written_bytes, fail_at) ==
    IF reads = fail_at
    THEN [ok |-> FALSE, fs |-> f, digest |-> digest, written_bytes |-> written_bytes]
    ELSE LET bytes == ReadChunk(src, pos) IN
         IF bytes = <<>>
         THEN [ok |-> TRUE, fs |-> f, digest |-> digest, written_bytes |-> written_bytes]
         ELSE upload_loop_keep(File_write(f, path, bytes), path, src, pos + Len(bytes),
                               reads + 1, Sha256_update(digest, bytes),
                               written_bytes + Len(bytes), fail_at)

\* the transfer loop of FsFileStore::upload from read number `reads` on; the
\* read or write numbered fail_at fails (0: none does)
RECURSIVE upload_loop(_, _, _, _, _, _, _, _)
upload_loop(f, path, src, pos, reads, digest, written_bytes, fail_at) ==
    IF reads = fail_at
    THEN [ok |-> FALSE, fs |-> remove_file(f, path).fs, digest |-> digest,
          written_bytes |-> written_bytes]
    ELSE LET bytes == ReadChunk(src, pos) IN
         IF bytes = <<>>
         THEN [ok |-> TRUE, fs |-> f, digest |-> digest, written_bytes |-> written_bytes]
         ELSE upload_loop(File_write(f, path, bytes), path, src, pos + Len(bytes),
                          reads + 1, Sha256_update(digest, bytes),
                          written_bytes + Len(bytes), fail_at)

\* FsFileStore::upload: the io::Result (Ok, InvalidInput, or the error of the
\* call that failed) and the filesystem afterwards
upload(f, base, path, src, fail_at) ==
    LET resolved == full_path(base, path) IN
    IF resolved = None THEN [result |-> "InvalidInput", fs |-> f]
    ELSE LET target == Unwrap(resolved) IN
    IF ~is_valid_path(base, target) THEN [result |-> "InvalidInput", fs |-> f]
    ELSE LET dirs == create_dir_all(f, Parent(target)) IN
    IF ~dirs.ok THEN [result |-> "CreateDirError", fs |-> dirs.fs]
    ELSE LET created == File_create(dirs.fs, target) IN
    IF ~created.ok THEN [result |-> "CreateError", fs |-> created.fs]
    ELSE LET done == upload_loop(created.fs, target, src, 0, 1, Sha256_new, 0, fail_at) IN
    IF ~done.ok THEN [result |-> "TransferError", fs |-> done.fs]
    ELSE LET metadata == [hash |-> hash_to_hex(done.digest),
                          size_bytes |-> done.written_bytes]
             sidecar == File_create(done.fs, metadata_path(target))
         IN  IF ~sidecar.ok THEN [result |-> "SidecarError", fs |-> sidecar.fs]
             ELSE [result |-> "Ok",
                   fs |-> File_write(sidecar.fs, metadata_path(target), to_writer(metadata))]

\* FsFileStore::remove without its existence test
remove_unchecked(f, base, path) ==
    LET resolved == full_path(base, path) IN
    IF resolved = None THEN [result |-> "InvalidInput", fs |-> f]
    ELSE LET target == Unwrap(resolved) IN
    IF ~is_valid_path(base, target) THEN [result |-> "InvalidInput", fs |-> f]
    ELSE LET gone == remove_file(f, target) IN
    IF ~gone.ok THEN [result |-> "RemoveError", fs |-> gone.fs]
    ELSE IF is_file(gone.fs, metadata_path(target))
    THEN [result |-> "Ok", fs |-> remove_file(gone.fs, metadata_path(target)).fs]
    ELSE [result |-> "Ok", fs |-> gone.fs]

\* FsFileStore::remove; the existence test hands the resolved path to exists,
\* which resolves it against the root once more
remove(f, base, path) ==
    LET resolved == full_path(base, path) IN
    IF resolved = None THEN [result |-> "InvalidInput", fs |-> f]
    ELSE LET target == Unwrap(resolved) IN
    IF ~is_valid_path(base, target) THEN [result |-> "InvalidInput", fs |-> f]
    ELSE IF ~exists(f, base, target) THEN [result |-> "Ok", fs |-> f]
    ELSE LET gone == remove_file(f, target) IN
    IF ~gone.ok THEN [result |-> "RemoveError", fs |-> gone.fs]
    ELSE IF is_file(gone.fs, metadata_path(target))
    THEN [result |-> "Ok", fs |-> remove_file(gone.fs, metadata_path(target)).fs]
    ELSE [result |-> "Ok", fs |-> gone.fs]

\* FsFile::read_metadata().unwrap_or_default()
read_metadata(f, path) ==
    IF ~is_file(f, metadata_path(path)) THEN FileMetadata_default
    ELSE LET parsed == from_reader(Content(f, metadata_path(path))) IN
         IF IsSome(parsed) THEN Unwrap(parsed) ELSE FileMetadata_default

\* FsFile::new_existing
FsFile_new_existing(f, file_path) ==
    [path |-> file_path, metadata |-> read_metadata(f, file_path)]

\* FsFile::bytes_iter run to its end, no read failing: the chunks it yields
RECURSIVE chunks_from(_, _)
chunks_from(bytes, pos) ==
    LET chunk == ReadChunk(bytes, pos) IN
    IF chunk = <<>> THEN <<>> ELSE <<chunk>> \o chunks_from(bytes, pos + Len(chunk))

bytes_iter(f, file) == chunks_from(Content(f, file.path), 0)

\* TryStreamExt::try_concat
RECURSIVE try_concat(_)
try_concat(chunks) ==
    IF chunks = <<>> THEN <<>> ELSE chunks[1] \o try_concat(Tail(chunks))

\* FsFileStore::get_file: the possible outcomes (insert may evict any of the
\* least recently used entries)
get_file(f, base, cache, path, t) ==
    IF ~exists(f, base, path) THEN {[file |-> None, cache |-> cache]}
    ELSE LET file_path == Unwrap(full_path(base, path))
             hit == CacheMap_get(cache, file_path, t)
         IN  IF IsSome(hit.value)
             THEN {[file |-> hit.value, cache |-> hit.cache]}
             ELSE LET file == FsFile_new_existing(f, file_path) IN
                  {[file |-> Some(file), cache |-> r.cache] :
                      r \in CacheMap_insert(hit.cache, file_path, file, t)}

(***************************************************************************)
(* What the server specifications start from.                              *)
(***************************************************************************)
DefaultTtl == 2     \* CacheMap::new's default_ttl (one hour), in clock ticks
DefaultMaxSize == 100

\* base_dir: the default "files" (relative) and an absolute directory
Roots == {<<"files">>, <<"/", "data">>}

\* request paths: a file, and a file in the parent of the root
RequestPaths == {<<"a">>, <<"..", "a">>}

\* request bodies: two of one byte, one longer than the read buffer
Payloads == {<<0>>, <<1>>, <<0, 1, 1>>}

\* the working directory and its ancestors exist; /a is a file outside every root
InitFs ==
    [files |-> [at \in {<<"a">>} |-> <<1>>],
     dirs |-> {SubSeq(Cwd, 1, n) : n \in 0..Len(Cwd)},
     links |-> EmptyMap]

\* which read of an upload's source fails: none, or the one after the first chunk
FailAt == {0, 2}

NoResp == [op |-> "none"]

IdleFileCache == file_cache = CacheMap_new(0, 0) /\ config = [enabled |-> FALSE, max_size_bytes |-> 0]

(***************************************************************************)
(* SpecStore: the FileStorageCore operations of one FsFileStore, called    *)
(* one after the other.                                                    *)
(***************************************************************************)
InitStore ==
    /\ base_path \in Roots
    /\ fs = InitFs
    /\ store_cache = CacheMap_new(DefaultTtl, DefaultMaxSize)
    /\ resp = NoResp
    /\ clock = 0
    /\ IdleFileCache
    /\ cm = CacheMap_new(0, 0) /\ ret = NoRet /\ inserted_at = EmptyMap
    /\ IdlePath
    /\ IdleSteps

\* FileStorageCore::upload
StoreUpload(path, src, fail_at) ==
    LET r == upload(fs, base_path, path, src, fail_at) IN
    /\ fs' = r.fs
    /\ resp' = [op |-> "upload", path |-> path, sent |-> src, result |-> r.result,
                was_file |-> FALSE, file |-> None, chunks |-> <<>>,
                fail_at |-> fail_at]
    /\ UNCHANGED <<stepVars, cacheVars, pathVars, clock, base_path, config, store_cache, file_cache>>

\* FileStorageCore::remove; was_file: the resolved path named a regular file;
\* deleted: the call deleted something; again: the call before was a
\* successful remove of the same path, and whether that one deleted something
StoreRemove(path) ==
    LET r == remove(fs, base_path, path) IN
    /\ fs' = r.fs
    /\ resp' = [op |-> "remove", path |-> path, sent |-> <<>>, result |-> r.result,
                was_file |-> IsSome(full_path(base_path, path))
                             /\ is_file(fs, Unwrap(full_path(base_path, path))),
                file |-> None, chunks |-> <<>>,
                deleted |-> r.fs # fs,
                again |-> IF resp.op = "remove" /\ resp.path = path /\ resp.result = "Ok"
                          THEN (IF resp.deleted THEN "after_delete" ELSE "after_noop")
                          ELSE "first"]
    /\ UNCHANGED <<stepVars, cacheVars, pathVars, clock, base_path, config, store_cache, file_cache>>

\* FileStorageCore::get_file, then StoredFileCore::bytes_iter read to its end
StoreGetFile(path) ==
    \E r \in get_file(fs, base_path, store_cache, path, clock) :
        /\ store_cache' = r.cache
        /\ resp' = [op |-> "get_file", path |-> path, sent |-> <<>>, result |-> "Ok",
                    was_file |-> FALSE, file |-> r.file,
                    chunks |-> IF IsSome(r.file) THEN bytes_iter(fs, Unwrap(r.file))
                               ELSE <<>>]
            /\ UNCHANGED <<stepVars, cacheVars, pathVars, clock, base_path, config, fs, file_cache>>

\* time passes between calls
Tick ==
    /\ clock < MaxTime
    /\ clock' = clock + 1
    /\ UNCHANGED <<stepVars, cacheVars, pathVars, serverVars>>

NextStore ==
    \/ \E path \in RequestPaths, src \in Payloads, fail_at \in FailAt :
          StoreUpload(path, src, fail_at)
    \/ \E path \in RequestPaths : StoreRemove(path)
    \/ \E path \in RequestPaths : StoreGetFile(path)
    \/ Tick

SpecStore == InitStore /\ [][NextStore]_vars

(***************************************************************************)
(* Claims about FsFileStore, checked under SpecStore.                      *)
(***************************************************************************)
\* C6: after upload(path, B) returned success, get_file(path) returns a file
\* whose chunks concatenate to B, whose metadata.hash is the digest of B and
\* whose metadata.size_bytes is the length of B, whatever the store held before.
C6_UploadThenGetFile ==
    [][(/\ resp.op = "upload" /\ resp.result = "Ok"
        /\ resp'.op = "get_file" /\ resp'.path = resp.path) =>
          /\ IsSome(resp'.file)
          /\ try_concat(resp'.chunks) = resp.sent
          /\ Unwrap(resp'.file).metadata.hash = sha256_digest(resp.sent)
          /\ Unwrap(resp'.file).metadata.size_bytes = Len(resp.sent)]_vars

\* C10: after remove(path) returned success for a path that named an existing
\* file, neither FsFileStore.cache nor the byte cache holds an entry under the
\* resolved path.
C10_RemoveInvalidatesCaches ==
    (resp.op = "remove" /\ resp.result = "Ok" /\ resp.was_file) =>
        LET key == Unwrap(full_path(base_path, resp.path)) IN
        /\ key \notin DOMAIN store_cache.inner
        /\ key \notin DOMAIN file_cache.inner

\* the step is a call of remove
RemoveStep == clock' = clock /\ resp'.op = "remove" /\ store_cache' = store_cache

\* the step is a remove that follows a remove of the same path
RemoveAgain == RemoveStep /\ resp.op = "remove" /\ resp'.path = resp.path

PassesValidation(path) ==
    /\ IsSome(full_path(base_path, path))
    /\ is_valid_path(base_path, Unwrap(full_path(base_path, path)))

TransferStarts(f, path) ==
    /\ PassesValidation(path)
    /\ LET target == Unwrap(full_path(base_path, path))
           made == create_dir_all(f, Parent(target))
       IN  made.ok /\ File_create(made.fs, target).ok

\* C12: when a read or write fails in the middle of an upload's transfer, the
\* destination data file does not exist when the error is returned, and the
\* error returned is that I/O error.
C12_FailedUploadLeavesNoFile ==
    [][(/\ clock' = clock /\ resp'.op = "upload" /\ resp'.fail_at # 0
        /\ TransferStarts(fs, resp'.path)) =>
          LET target == Unwrap(full_path(base_path, resp'.path)) IN
          /\ resp'.result = "TransferError"
          /\ ~path_exists(fs', target)
          /\ ~is_symlink(fs', target)]_vars

\* an upload that overwrote a file of three bytes failed after its first chunk
\* and the file is gone
C12_Witness ==
    /\ resp.op = "upload"
    /\ resp.fail_at = 2
    /\ resp.sent = <<0, 1, 1>>
    /\ resp.result = "TransferError"
    /\ ~path_exists(fs, Unwrap(full_path(base_path, resp.path)))
    /\ is_file(fs, metadata_path(Unwrap(full_path(base_path, resp.path))))

\* C25: after any sequence of uploads (succeeding, or failing in the middle of
\* the transfer, also over an existing file) and removes, a sidecar
\* X.metadata.json exists under the root only if its data file X exists.
C25_SidecarOnlyWithData ==
    \A path \in RequestPaths :
        PassesValidation(path) =>
            LET target == Unwrap(full_path(base_path, path)) IN
            is_file(fs, metadata_path(target)) => is_file(fs, target)

(***************************************************************************)
(* SpecLinks: the store on a root directory that holds a symbolic link     *)
(* "l" to the regular file /a, which lies outside the root.                *)
(***************************************************************************)
\* the request path that names the link
LinkPaths == {<<"l">>}

LinkFs(base) ==
    [files |-> InitFs.files,
     dirs |-> InitFs.dirs \cup {SubSeq(Location(base), 1, n) : n \in 0..Len(Location(base))},
     links |-> [at \in {Location(base \o <<"l">>)} |-> <<"a">>]]

InitLinks ==
    /\ base_path \in Roots
    /\ fs = LinkFs(base_path)
    /\ store_cache = CacheMap_new(DefaultTtl, DefaultMaxSize)
    /\ resp = NoResp
    /\ clock = 0
    /\ IdleFileCache
    /\ cm = CacheMap_new(0, 0) /\ ret = NoRet /\ inserted_at = EmptyMap
    /\ IdlePath
    /\ IdleSteps

\* FileStorageCore::exists
StoreExists(path) ==
    /\ resp' = [op |-> "exists", path |-> path, sent |-> <<>>,
                result |-> exists(fs, base_path, path),
                was_file |-> FALSE, file |-> None, chunks |-> <<>>]
    /\ UNCHANGED <<stepVars, cacheVars, pathVars, clock, base_path, config, fs, store_cache,
                   file_cache>>

NextLinks ==
    \/ \E path \in LinkPaths : StoreExists(path)
    \/ \E path \in LinkPaths : StoreGetFile(path)
    \/ \E path \in LinkPaths : StoreRemove(path)
    \/ \E path \in LinkPaths, src \in Payloads, fail_at \in FailAt :
          StoreUpload(path, src, fail_at)
    \/ Tick

SpecLinks == InitLinks /\ [][NextLinks]_vars

\* C13: when the final component of the resolved path is a symbolic link, also
\* one to a regular file, exists returns false, get_file returns absent and
\* remove changes nothing.  (Checked under SpecLinks.)
C13_SymlinkDoesNotExist ==
    [][(/\ clock' = clock
        /\ IsSome(full_path(base_path, resp'.path))
        /\ is_symlink(fs, Unwrap(full_path(base_path, resp'.path)))) =>
          /\ resp'.op = "exists" => resp'.result = FALSE
          /\ resp'.op = "get_file" => resp'.file = None
          /\ resp'.op = "remove" => fs' = fs]_vars

(***************************************************************************)
(* routes/serve_files.rs, routes/upload_file.rs, state.rs                  *)
(***************************************************************************)
MaxSizeBytes == 1   \* memory_cache.max_size_bytes, in bytes of the model
CacheTimeTicks == 2 \* memory_cache.cache_time_secs, in clock ticks
MaxFilesCached == 100

\* the byte cache the handlers share: a CacheMap built from memory_cache
FileCache_new == CacheMap_new(CacheTimeTicks, MaxFilesCached)

\* CachedFileEntry::new
CachedFileEntry_new(bytes) == [hash |-> sha256_digest(bytes), bytes |-> bytes]

\* stream_raw_bytes / stream_web_bytes read to the end, no read failing
stream_raw_bytes(bytes) == chunks_from(bytes, 0)

NoHeaders == [etag |-> None, cache_control |-> FALSE, aborted |-> FALSE]

Response(status, body) == [status |-> status, body |-> body] @@ NoHeaders

\* response_from_file with the ETag test inverted
response_from_file_inverted(if_none_match, file) ==
    IF IsSome(if_none_match) /\ Unwrap(if_none_match) # file.hash
    THEN Response(304, <<>>)
    ELSE [Response(200, try_concat(stream_raw_bytes(file.bytes)))
            EXCEPT !.etag = Some(file.hash)]

\* response_from_file
response_from_file(if_none_match, file) ==
    IF IsSome(if_none_match) /\ Unwrap(if_none_match) = file.hash
    THEN Response(304, <<>>)
    ELSE [Response(200, try_concat(stream_raw_bytes(file.bytes)))
            EXCEPT !.etag = Some(file.hash)]

\* serve_file without the size threshold: every file is buffered and cached
serve_file_eager(f, base, cfg, cache, file_name, if_none_match, io, t) ==
    LET resolved == secure_virtual_path(base, file_name) IN
    IF resolved = None THEN {[response |-> Response(403, <<>>), cache |-> cache]}
    ELSE LET file_path == Unwrap(resolved) IN
    IF ~path_exists(f, file_path) \/ ~is_file(f, file_path) \/ is_symlink(f, file_path)
    THEN {[response |-> Response(404, <<>>), cache |-> cache]}
    ELSE LET hit == CacheMap_get(cache, file_path, t) IN
    IF IsSome(hit.value)
    THEN {[response |-> response_from_file(if_none_match, Unwrap(hit.value)),
           cache |-> hit.cache]}
    ELSE IF io = "open"
    THEN {[response |-> Response(500, <<>>), cache |-> hit.cache]}
    ELSE LET on_disk == Content(f, file_path) IN
    IF cfg.enabled
    THEN IF io = "read"
         THEN {[response |-> Response(500, <<>>), cache |-> hit.cache]}
         ELSE LET file_entry == CachedFileEntry_new(try_concat(stream_raw_bytes(on_disk)))
              IN  {[response |-> response_from_file(if_none_match, file_entry),
                    cache |-> r.cache] :
                      r \in CacheMap_insert(hit.cache, file_path, file_entry, t)}
    ELSE IF io = "read"
         THEN {[response |-> [Response(200, <<>>) EXCEPT !.cache_control = TRUE,
                                                          !.aborted = TRUE],
                cache |-> hit.cache]}
         ELSE {[response |-> [Response(200, try_concat(stream_raw_bytes(on_disk)))
                                EXCEPT !.cache_control = TRUE],
                cache |-> hit.cache]}

\* serve_file: the possible responses with the byte cache afterwards.
\* io: "open" - File::open fails, "read" - a read of the file fails, "none"
serve_file(f, base, cfg, cache, file_name, if_none_match, io, t) ==
    LET resolved == secure_virtual_path(base, file_name) IN
    IF resolved = None THEN {[response |-> Response(403, <<>>), cache |-> cache]}
    ELSE LET file_path == Unwrap(resolved) IN
    IF ~path_exists(f, file_path) \/ ~is_file(f, file_path) \/ is_symlink(f, file_path)
    THEN {[response |-> Response(404, <<>>), cache |-> cache]}
    ELSE LET hit == CacheMap_get(cache, file_path, t) IN
    IF IsSome(hit.value)
    THEN {[response |-> response_from_file(if_none_match, Unwrap(hit.value)),
           cache |-> hit.cache]}
    ELSE IF io = "open"
    THEN {[response |-> Response(500, <<>>), cache |-> hit.cache]}
    ELSE LET on_disk == Content(f, file_path) IN
    IF cfg.enabled /\ Len(on_disk) <= cfg.max_size_bytes
    THEN IF io = "read"
         THEN {[response |-> Response(500, <<>>), cache |-> hit.cache]}
         ELSE LET file_entry == CachedFileEntry_new(try_concat(stream_raw_bytes(on_disk)))
              IN  {[response |-> response_from_file(if_none_match, file_entry),
                    cache |-> r.cache] :
                      r \in CacheMap_insert(hit.cache, file_path, file_entry, t)}
    ELSE IF io = "read"
         THEN {[response |-> [Response(200, <<>>) EXCEPT !.cache_control = TRUE,
                                                          !.aborted = TRUE],
                cache |-> hit.cache]}
         ELSE {[response |-> [Response(200, try_concat(stream_raw_bytes(on_disk)))
                                EXCEPT !.cache_control = TRUE],
                cache |-> hit.cache]}

\* the status upload_file and delete_file answer an io::Result with
StatusOf(result, ok_status) ==
    CASE result = "Ok" -> ok_status
      [] result = "InvalidInput" -> 400
      [] OTHER -> 500

(***************************************************************************)
(* Spec: the three handlers on one filesystem and one byte cache, one      *)
(* request at a time.  resp.seq flips with every request.                  *)
(***************************************************************************)
\* If-None-Match: absent, or the digest of one of the one-byte bodies
Validators == {None, Some(sha256_digest(<<0>>)), Some(sha256_digest(<<1>>))}


Request(op, path, if_none_match, io, sent) ==
    [seq |-> 1 - resp.seq, op |-> op, path |-> path, inm |-> if_none_match,
     io |-> io, sent |-> sent]

InitServerWith(roots) ==
    /\ base_path \in roots
    /\ config \in [enabled : BOOLEAN, max_size_bytes : {MaxSizeBytes}]
    /\ fs = InitFs
    /\ file_cache = FileCache_new
    /\ store_cache = CacheMap_new(DefaultTtl, DefaultMaxSize)
    /\ resp = [seq |-> 0, op |-> "none", path |-> <<>>, inm |-> None, io |-> "none",
               sent |-> <<>>] @@ Response(0, <<>>)
    /\ clock = 0
    /\ cm = CacheMap_new(0, 0) /\ ret = NoRet /\ inserted_at = EmptyMap
    /\ IdlePath
    /\ IdleSteps

Init == InitServerWith(Roots)

\* POST /api/{path}
upload_file(path, src, fail_at) ==
    LET r == upload(fs, base_path, path, src, fail_at) IN
    /\ fs' = r.fs
    /\ resp' = Request("upload", path, None, "none", src)
                 @@ Response(StatusOf(r.result, 201), <<>>)
    /\ UNCHANGED <<stepVars, cacheVars, pathVars, clock, base_path, config, store_cache, file_cache>>

\* DELETE /api/{path}
delete_file(path) ==
    LET r == remove(fs, base_path, path) IN
    /\ fs' = r.fs
    /\ resp' = Request("delete", path, None, "none", <<>>)
                 @@ Response(StatusOf(r.result, 200), <<>>)
    /\ UNCHANGED <<stepVars, cacheVars, pathVars, clock, base_path, config, store_cache, file_cache>>

\* GET /{file_name}
GetRequest(file_name, if_none_match, io) ==
    \E r \in serve_file(fs, base_path, config, file_cache, file_name, if_none_match,
                        io, clock) :
        /\ file_cache' = r.cache
        /\ resp' = Request("get", file_name, if_none_match, io, <<>>) @@ r.response
        /\ UNCHANGED <<stepVars, cacheVars, pathVars, clock, base_path, config, store_cache, fs>>

Next ==
    \/ \E path \in RequestPaths, src \in Payloads, fail_at \in FailAt :
          upload_file(path, src, fail_at)
    \/ \E path \in RequestPaths : delete_file(path)
    \/ \E path \in RequestPaths, v \in Validators, io \in {"none", "open", "read"} :
          GetRequest(path, v, io)
    \/ Tick

Spec == Init /\ [][Next]_vars

(***************************************************************************)
(* SpecUpload: the two writing handlers alone, also with the parent        *)
(* directory as root.                                                      *)
(***************************************************************************)
InitUpload == InitServerWith(Roots \cup {<<"..">>})

NextUpload ==
    \/ \E path \in RequestPaths, src \in Payloads, fail_at \in FailAt :
          upload_file(path, src, fail_at)
    \/ \E path \in RequestPaths : delete_file(path)

SpecUpload == InitUpload /\ [][NextUpload]_vars

(***************************************************************************)
(* SpecNames: the two writing handlers addressed with reserved names.      *)
(***************************************************************************)
NamePaths ==
    {<<"a">>, <<"a.metadata.json">>, <<"A.METADATA.JSON">>, <<"b", "a.metadata.json">>,
     <<"api">>, <<"api", "a">>}

NextNames ==
    \/ \E path \in NamePaths, src \in Payloads, fail_at \in FailAt :
          upload_file(path, src, fail_at)
    \/ \E path \in NamePaths : delete_file(path)

SpecNames == Init /\ [][NextNames]_vars

(***************************************************************************)
(* SpecServe: GET requests (and DELETE of the one stored file) on a root   *)
(* that holds a regular file "a" and the symbolic link "l"; the root may   *)
(* also be the parent directory.                                           *)
(***************************************************************************)
ServePaths == {<<"a">>, <<"..", "a">>, <<"l">>, <<"b">>}

ServeFs(base) ==
    [LinkFs(base) EXCEPT !.files = MapInsert(@, Location(base \o <<"a">>), <<0>>)]

InitServe ==
    /\ base_path \in Roots \cup {<<"..">>}
    /\ config \in [enabled : BOOLEAN, max_size_bytes : {MaxSizeBytes}]
    /\ fs = ServeFs(base_path)
    /\ file_cache = FileCache_new
    /\ store_cache = CacheMap_new(DefaultTtl, DefaultMaxSize)
    /\ resp = [seq |-> 0, op |-> "none", path |-> <<>>, inm |-> None, io |-> "none",
               sent |-> <<>>] @@ Response(0, <<>>)
    /\ clock = 0
    /\ cm = CacheMap_new(0, 0) /\ ret = NoRet /\ inserted_at = EmptyMap
    /\ IdlePath
    /\ IdleSteps

NextServe ==
    \/ \E path \in ServePaths, v \in Validators, io \in {"none", "open", "read"} :
          GetRequest(path, v, io)
    \/ delete_file(<<"a">>)
    \/ Tick

SpecServe == InitServe /\ [][NextServe]_vars

(***************************************************************************)
(* Claims about the handlers.                                              *)
(***************************************************************************)
\* the step is a GET request
GetStep == resp'.seq # resp.seq /\ resp'.op = "get"

\* the request path leads outside the root directory
LeadsOutside(path) == ~Within(Join(base_path, path), base_path)

\* the locations whose file content or directory status differs between f and g
Touched(f, g) ==
    {at \in DOMAIN f.files \cup DOMAIN g.files :
        \/ at \notin DOMAIN f.files
        \/ at \notin DOMAIN g.files
        \/ f.files[at] # g.files[at]}
    \cup ((f.dirs \ g.dirs) \cup (g.dirs \ f.dirs))
    \cup ((DOMAIN f.links \ DOMAIN g.links) \cup (DOMAIN g.links \ DOMAIN f.links))

\* C5: an upload or delete whose path leads outside the root is answered 400
\* and changes nothing on the filesystem, and whatever an upload or delete
\* creates, changes or deletes lies under the root.  (Checked under SpecUpload.)
C5_WritesStayUnderRoot ==
    [][resp'.seq # resp.seq =>
          /\ LeadsOutside(resp'.path) => (resp'.status = 400 /\ fs' = fs)
          /\ \A at \in Touched(fs, fs') : IsPrefix(Location(base_path), at)]_vars

\* C7: after an upload of B to a path returned 201, a GET of that path (cache
\* enabled, B within the size threshold, no read failing, no validator equal to
\* B's digest) returns 200 with body B and ETag the digest of B, whatever the
\* byte cache holds.
C7_GetAfterUpload ==
    [][(/\ resp.op = "upload" /\ resp.status = 201
        /\ GetStep /\ resp'.path = resp.path
        /\ config.enabled /\ Len(resp.sent) <= config.max_size_bytes
        /\ resp'.io = "none"
        /\ resp'.inm # Some(sha256_digest(resp.sent))) =>
          /\ resp'.status = 200
          /\ resp'.body = resp.sent
          /\ resp'.etag = Some(sha256_digest(resp.sent))]_vars

\* the GET in resp was for a regular file under the root and no read failed
GotStoredFile ==
    /\ resp.op = "get" /\ resp.io = "none"
    /\ IsSome(secure_virtual_path(base_path, resp.path))
    /\ is_file(fs, Unwrap(secure_virtual_path(base_path, resp.path)))

C9_GetAfterDelete ==
    [][(/\ resp.op = "delete" /\ resp.status = 200
        /\ GetStep /\ resp'.path = resp.path) =>
          resp'.status = 404]_vars

\* the names of the model that end with the sidecar suffix, whatever the case
SidecarNames == {"a.metadata.json", "A.METADATA.JSON", "b.metadata.json", ".metadata.json"}

\* the resolved path is a sidecar name or lies in the api directory of the root
Reserved(target) ==
    \/ target[Len(target)] \in SidecarNames
    \/ IsPrefix(Location(base_path) \o <<"api">>, Location(target))

\* C15: an upload or delete whose resolved path ends in a name with the
\* sidecar suffix (in any case) or lies under root/api is answered 400 and
\* leaves the filesystem unchanged; the only sidecar an upload or delete
\* touches is the one belonging to the data file it addresses.  (Checked
\* under SpecNames.)
C15_ReservedNamesRejected ==
    [][(resp'.seq # resp.seq) =>
          LET r == full_path(base_path, resp'.path) IN
          /\ (IsSome(r) /\ Reserved(Unwrap(r))) => (resp'.status = 400 /\ fs' = fs)
          /\ \A at \in Touched(fs, fs') :
                (at # <<>> /\ at[Len(at)] \in SidecarNames) =>
                    /\ IsSome(r)
                    /\ ~Reserved(Unwrap(r))
                    /\ at = Location(metadata_path(Unwrap(r)))]_vars

\* a DELETE addressed to an existing sidecar was answered 400 and the sidecar
\* is still there
C15_Witness ==
    /\ resp.op = "delete"
    /\ resp.path = <<"a.metadata.json">>
    /\ resp.status = 400
    /\ is_file(fs, base_path \o <<"a.metadata.json">>)

\* C16: serve_file answers 403 exactly when path resolution fails, and
\* otherwise 404 when the target is missing, not a regular file or a symbolic
\* link; the cache is not touched before both checks pass; a request for a
\* path outside the root is answered 403, never 404 or 200, and gets no
\* content.  (Checked under SpecServe.)
C16_ForbiddenThenNotFound ==
    [][GetStep =>
          LET r == secure_virtual_path(base_path, resp'.path) IN
          /\ resp'.status = 403 <=> r = None
          /\ r = None => file_cache' = file_cache
          /\ (IsSome(r) /\ (~is_file(fs, Unwrap(r)) \/ is_symlink(fs, Unwrap(r)))) =>
                (resp'.status = 404 /\ file_cache' = file_cache)
          /\ LeadsOutside(resp'.path) =>
                (resp'.status = 403 /\ resp'.body = <<>>)]_vars

\* the GET of the step finds a regular file that is no symbolic link
Found(path) ==
    /\ IsSome(secure_virtual_path(base_path, path))
    /\ is_file(fs, Unwrap(secure_virtual_path(base_path, path)))
    /\ ~is_symlink(fs, Unwrap(secure_virtual_path(base_path, path)))

\* the byte cache holds an unexpired entry for the path's file
Hit(path) ==
    LET key == Unwrap(secure_virtual_path(base_path, path)) IN
    key \in DOMAIN file_cache.inner /\ file_cache.inner[key].expires_at > clock

\* the cache is enabled and the path's file is within the size threshold
Small(path) ==
    /\ config.enabled
    /\ Len(Content(fs, Unwrap(secure_virtual_path(base_path, path)))) <= config.max_size_bytes

\* the step put an entry into the byte cache
Inserted ==
    \E k \in DOMAIN file_cache'.inner :
        \/ k \notin DOMAIN file_cache.inner
        \/ file_cache'.inner[k].inner # file_cache.inner[k].inner
        \/ file_cache'.inner[k].expires_at # file_cache.inner[k].expires_at

\* C17: serve_file inserts into the byte cache only on a miss with the cache
\* enabled, the file within the size threshold and the whole file read; with
\* the cache disabled or the file above the threshold the response is streamed
\* (200, Cache-Control, no ETag), a failed buffered read is answered 500, and
\* in both cases the cache is left unchanged.
C17_CacheOnlyBufferedReads ==
    [][GetStep =>
          /\ Inserted =>
                (/\ Found(resp'.path) /\ ~Hit(resp'.path) /\ Small(resp'.path)
                 /\ resp'.io = "none")
          /\ (Found(resp'.path) /\ ~Hit(resp'.path) /\ ~Small(resp'.path)
               /\ resp'.io # "open") =>
                (/\ resp'.status = 200 /\ resp'.cache_control /\ resp'.etag = None
                 /\ file_cache' = file_cache)
          /\ (Found(resp'.path) /\ ~Hit(resp'.path) /\ Small(resp'.path)
               /\ resp'.io = "read") =>
                (resp'.status = 500 /\ file_cache' = file_cache)]_vars

\* the byte cache after the step is the one before it without the path's entry
LookupOnly(path) ==
    file_cache' = [file_cache EXCEPT
                     !.inner = MapRemove(@, Unwrap(secure_virtual_path(base_path, path)))]

\* C17 as amended: as C17, but in the streamed case and after a failed
\* buffered read the cache is unchanged except that the lookup has removed
\* the path's entry if it held an expired one; no entry is inserted.
C17_CacheOnlyBufferedReadsOrExpiry ==
    [][GetStep =>
          /\ Inserted =>
                (/\ Found(resp'.path) /\ ~Hit(resp'.path) /\ Small(resp'.path)
                 /\ resp'.io = "none")
          /\ (Found(resp'.path) /\ ~Hit(resp'.path) /\ ~Small(resp'.path)
               /\ resp'.io # "open") =>
                (/\ resp'.status = 200 /\ resp'.cache_control /\ resp'.etag = None
                 /\ LookupOnly(resp'.path))
          /\ (Found(resp'.path) /\ ~Hit(resp'.path) /\ Small(resp'.path)
               /\ resp'.io = "read") =>
                (resp'.status = 500 /\ LookupOnly(resp'.path))]_vars

\* with the cache enabled, a file above the threshold was streamed and is not
\* in the cache
C17_Witness ==
    /\ resp.op = "get" /\ resp.io = "none"
    /\ config.enabled
    /\ resp.status = 200 /\ resp.cache_control /\ resp.etag = None
    /\ Len(resp.body) > config.max_size_bytes
    /\ Unwrap(secure_virtual_path(base_path, resp.path)) \notin DOMAIN file_cache.inner

(***************************************************************************)
(* SpecConc: requests running concurrently, one step at a time.  A request *)
(* is a GET (serve_file, sharing the byte cache behind a futures Mutex) or *)
(* a call of FsFileStore::get_file (sharing FsFileStore.cache behind a     *)
(* std Mutex).  A pc names the step the request performs next.  The body   *)
(* of a response is sent chunk by chunk, as fast as the client takes it.   *)
(***************************************************************************)
NumRequests == 3    \* requests in flight at the same time

Requests == 1..NumRequests

\* the stored files requested: one within the size threshold, one above it
ConcPaths == {<<"a">>, <<"big">>}

ConcFs(base) ==
    [files |-> [at \in {Location(base \o <<"a">>), Location(base \o <<"big">>)} |->
                  IF at = Location(base \o <<"a">>) THEN <<0>> ELSE <<0, 1, 1>>],
     dirs |-> InitFs.dirs \cup {SubSeq(Location(base), 1, n) : n \in 0..Len(Location(base))},
     links |-> EmptyMap]

Unlocked == 0

NewRequest == [pc |-> "idle", kind |-> "none", path |-> <<>>, key |-> None, left |-> 0,
               disk |-> FALSE, file |-> None, overtook |-> FALSE]

InitConc ==
    /\ base_path = <<"files">>
    /\ config \in [enabled : BOOLEAN, max_size_bytes : {MaxSizeBytes}]
    /\ fs = ConcFs(base_path)
    /\ file_cache = FileCache_new
    /\ store_cache = CacheMap_new(DefaultTtl, DefaultMaxSize)
    /\ resp = NoResp
    /\ clock = 0
    /\ cm = CacheMap_new(0, 0) /\ ret = NoRet /\ inserted_at = EmptyMap
    /\ IdlePath
    /\ reqs = [p \in Requests |-> NewRequest]
    /\ locks = [file |-> Unlocked, store |-> Unlocked]
    /\ iter = None
    /\ unlinked = None

concFrame == <<cacheVars, pathVars, clock, base_path, config, fs, resp, iter, unlinked>>

\* some other request is sending its body and has chunks left
StalledBeside(p) == \E q \in Requests \ {p} : reqs[q].pc = "streaming"

\* a request arrives; key is what its path resolves to (secure_virtual_path in
\* serve_file, full_path in get_file), a pure computation on the path
Begin(p, kind, path) ==
    /\ reqs[p].pc = "idle"
    /\ reqs' = [reqs EXCEPT ![p].kind = kind, ![p].path = path,
                            ![p].key = IF kind = "serve"
                                       THEN secure_virtual_path(base_path, path)
                                       ELSE full_path(base_path, path),
                            ![p].pc = IF kind = "serve" THEN "check" ELSE "exists"]
    /\ UNCHANGED <<concFrame, locks, file_cache, store_cache>>

\* serve_file up to the cache lookup: 403 when resolution failed, then the
\* three tests of the target
ServeCheck(p) ==
    /\ reqs[p].pc = "check"
    /\ reqs' = [reqs EXCEPT ![p].pc =
                  IF reqs[p].key = None THEN "done"
                  ELSE IF \/ ~path_exists(fs, Unwrap(reqs[p].key))
                          \/ ~is_file(fs, Unwrap(reqs[p].key))
                          \/ is_symlink(fs, Unwrap(reqs[p].key))
                  THEN "done"
                  ELSE "lock_get"]
    /\ UNCHANGED <<concFrame, locks, file_cache, store_cache>>

\* file_cache.lock().await of the lookup
ServeLockGet(p) ==
    /\ reqs[p].pc = "lock_get"
    /\ locks.file = Unlocked
    /\ locks' = [locks EXCEPT !.file = p]
    /\ reqs' = [reqs EXCEPT ![p].pc = "get", ![p].overtook = StalledBeside(p)]
    /\ UNCHANGED <<concFrame, file_cache, store_cache>>

\* .get(&file_path).cloned(): on a miss the guard is dropped with the statement
ServeGet(p) ==
    /\ reqs[p].pc = "get"
    /\ LET hit == CacheMap_get(file_cache, Unwrap(reqs[p].key), clock)
       IN  /\ file_cache' = hit.cache
           /\ IF IsSome(hit.value)
              THEN /\ reqs' = [reqs EXCEPT ![p].pc = "hit_respond",
                                           ![p].file = hit.value]
                   /\ locks' = locks
              ELSE /\ reqs' = [reqs EXCEPT ![p].pc = "open"]
                   /\ locks' = [locks EXCEPT !.file = Unlocked]
    /\ UNCHANGED <<concFrame, store_cache>>

\* the hit branch with the guard kept alive for as long as the body is sent
HitRespond_holding(p) ==
    /\ reqs[p].pc = "hit_respond"
    /\ locks' = locks
    /\ reqs' = [reqs EXCEPT
                  ![p].pc = "streaming",
                  ![p].left = Len(stream_raw_bytes(Unwrap(reqs[p].file).bytes))]
    /\ UNCHANGED <<concFrame, file_cache, store_cache>>

\* return response_from_file(..) of the hit branch: the response is built from
\* the cached bytes and the guard is dropped on return, before the body is sent
HitRespond(p) ==
    /\ reqs[p].pc = "hit_respond"
    /\ locks' = [locks EXCEPT !.file = Unlocked]
    /\ reqs' = [reqs EXCEPT
                  ![p].pc = "streaming",
                  ![p].left = Len(stream_raw_bytes(Unwrap(reqs[p].file).bytes))]
    /\ UNCHANGED <<concFrame, file_cache, store_cache>>

\* File::open(&file_path)
ServeOpen(p, ok) ==
    /\ reqs[p].pc = "open"
    /\ reqs' = [reqs EXCEPT ![p].pc = IF ok THEN "size" ELSE "done"]
    /\ UNCHANGED <<concFrame, locks, file_cache, store_cache>>

\* file_path.metadata() and the threshold test; above it the body is streamed
\* from the open file
ServeSize(p) ==
    /\ reqs[p].pc = "size"
    /\ LET on_disk == Content(fs, Unwrap(reqs[p].key)) IN
       reqs' = [reqs EXCEPT
                  ![p].pc = IF config.enabled /\ Len(on_disk) <= config.max_size_bytes
                            THEN "read_all"
                            ELSE IF Len(on_disk) = 0 THEN "done" ELSE "streaming",
                  ![p].left = Len(stream_raw_bytes(on_disk)),
                  ![p].disk = TRUE]
    /\ UNCHANGED <<concFrame, locks, file_cache, store_cache>>

\* file_bytes_stream.try_concat().await and CachedFileEntry::new
ServeReadAll(p, ok) ==
    /\ reqs[p].pc = "read_all"
    /\ LET on_disk == Content(fs, Unwrap(reqs[p].key)) IN
       reqs' = [reqs EXCEPT
                  ![p].pc = IF ok THEN "lock_insert" ELSE "done",
                  ![p].disk = FALSE,
                  ![p].file = IF ok
                              THEN Some(CachedFileEntry_new(try_concat(stream_raw_bytes(on_disk))))
                              ELSE None]
    /\ UNCHANGED <<concFrame, locks, file_cache, store_cache>>

\* file_cache.lock().await of the insert
ServeLockInsert(p) ==
    /\ reqs[p].pc = "lock_insert"
    /\ locks.file = Unlocked
    /\ locks' = [locks EXCEPT !.file = p]
    /\ reqs' = [reqs EXCEPT ![p].pc = "insert", ![p].overtook = StalledBeside(p)]
    /\ UNCHANGED <<concFrame, file_cache, store_cache>>

\* .insert(file_path, file_entry), the guard dropped with the statement, and
\* return response
ServeInsert(p) ==
    /\ reqs[p].pc = "insert"
    /\ \E r \in CacheMap_insert(file_cache, Unwrap(reqs[p].key),
                                Unwrap(reqs[p].file), clock) :
          file_cache' = r.cache
    /\ locks' = [locks EXCEPT !.file = Unlocked]
    /\ reqs' = [reqs EXCEPT
                  ![p].pc = "streaming",
                  ![p].left = Len(stream_raw_bytes(Unwrap(reqs[p].file).bytes))]
    /\ UNCHANGED <<concFrame, store_cache>>

\* the client takes the next chunk of the body
StreamChunk(p) ==
    /\ reqs[p].pc = "streaming"
    /\ reqs' = [reqs EXCEPT ![p].left = @ - 1,
                            ![p].pc = IF reqs[p].left <= 1 THEN "done" ELSE "streaming"]
    /\ UNCHANGED <<concFrame, locks, file_cache, store_cache>>

\* FsFileStore::get_file: self.exists(path) and self.full_path(path)
GetFileExists(p) ==
    /\ reqs[p].pc = "exists"
    /\ reqs' = [reqs EXCEPT ![p].pc = IF /\ IsSome(reqs[p].key)
                                         /\ is_file(fs, Unwrap(reqs[p].key))
                                      THEN "lock_store" ELSE "done"]
    /\ UNCHANGED <<concFrame, locks, file_cache, store_cache>>

\* self.cache.lock().unwrap()
GetFileLock(p) ==
    /\ reqs[p].pc = "lock_store"
    /\ locks.store = Unlocked
    /\ locks' = [locks EXCEPT !.store = p]
    /\ reqs' = [reqs EXCEPT ![p].pc = "store_get"]
    /\ UNCHANGED <<concFrame, file_cache, store_cache>>

\* cache.get(&file_path): a hit returns, which drops the guard; a miss goes on
\* with the guard alive
GetFileLookup(p) ==
    /\ reqs[p].pc = "store_get"
    /\ LET hit == CacheMap_get(store_cache, Unwrap(reqs[p].key), clock)
       IN  /\ store_cache' = hit.cache
           /\ IF IsSome(hit.value)
              THEN /\ reqs' = [reqs EXCEPT ![p].pc = "done", ![p].file = hit.value]
                   /\ locks' = [locks EXCEPT !.store = Unlocked]
              ELSE /\ reqs' = [reqs EXCEPT ![p].pc = "new_existing"]
                   /\ locks' = locks
    /\ UNCHANGED <<concFrame, file_cache>>

\* FsFile::new_existing(&file_path): opens and parses the sidecar
GetFileNewExisting(p) ==
    /\ reqs[p].pc = "new_existing"
    /\ reqs' = [reqs EXCEPT
                  ![p].pc = "store_insert",
                  ![p].file = Some(FsFile_new_existing(fs, Unwrap(reqs[p].key)))]
    /\ UNCHANGED <<concFrame, locks, file_cache, store_cache>>

\* cache.insert(..) and Some(file), which drops the guard
GetFileInsert(p) ==
    /\ reqs[p].pc = "store_insert"
    /\ \E r \in CacheMap_insert(store_cache, Unwrap(reqs[p].key),
                                Unwrap(reqs[p].file), clock) :
          store_cache' = r.cache
    /\ locks' = [locks EXCEPT !.store = Unlocked]
    /\ reqs' = [reqs EXCEPT ![p].pc = "done"]
    /\ UNCHANGED <<concFrame, file_cache>>

\* the steps a request takes by itself, whatever its client does
Run(p) ==
    \/ ServeCheck(p)
    \/ ServeLockGet(p)
    \/ ServeGet(p)
    \/ HitRespond(p)
    \/ \E ok \in BOOLEAN : ServeOpen(p, ok)
    \/ ServeSize(p)
    \/ \E ok \in BOOLEAN : ServeReadAll(p, ok)
    \/ ServeLockInsert(p)
    \/ ServeInsert(p)
    \/ GetFileExists(p)
    \/ GetFileLock(p)
    \/ GetFileLookup(p)
    \/ GetFileNewExisting(p)
    \/ GetFileInsert(p)

NextConc ==
    \/ \E p \in Requests, kind \in {"serve", "get_file"}, path \in ConcPaths :
          Begin(p, kind, path)
    \/ \E p \in Requests : Run(p)
    \/ \E p \in Requests : StreamChunk(p)

SpecConc == InitConc /\ [][NextConc]_vars

\* the executor keeps polling: as long as some request can take a step by
\* itself, one does; nothing makes a client take the chunks of its response
SpecConcFair == SpecConc /\ WF_vars(\E p \in Requests : Run(p))

(***************************************************************************)
(* Claims about concurrent requests, checked under SpecConc / SpecConcFair.*)
(***************************************************************************)
\* the steps that open, read or stat a file
IoSteps == {"check", "open", "size", "read_all", "exists", "new_existing"}

\* the request's next step is filesystem I/O
AtIo(p) == reqs[p].pc \in IoSteps \/ (reqs[p].pc = "streaming" /\ reqs[p].disk)

Holds(p) == locks.file = p \/ locks.store = p

\* C18: for the byte cache and for FsFileStore.cache alike, no request performs
\* a filesystem I/O step (open, read, metadata or sidecar load) while it holds
\* the cache's lock.
C18_NoIoUnderLock ==
    \A p \in Requests : AtIo(p) => ~Holds(p)

\* the request waits for the byte cache's lock or is inside the locked section
InCacheOp(p) == reqs[p].pc \in {"lock_get", "get", "hit_respond", "lock_insert", "insert"}

\* C19: a request whose response is being sent, however long its client takes,
\* holds no cache lock and does not touch the cache again; and every request
\* that attempts a get or insert on the byte cache eventually gets the lock and
\* completes it, whatever number of responses is stalled: again and again no
\* request is left waiting for the lock or inside the locked section.
\* (Checked under SpecConcFair.)
C19_StalledStreamsBlockNobody ==
    /\ [](\A p \in Requests : reqs[p].pc = "streaming" => ~Holds(p))
    /\ [][\A p \in Requests :
            (reqs[p].pc = "streaming" /\ reqs'[p] # reqs[p]) =>
                /\ reqs'[p].pc \in {"streaming", "done"}
                /\ file_cache' = file_cache /\ store_cache' = store_cache
                /\ locks' = locks]_vars
    /\ []<>(\A p \in Requests : ~InCacheOp(p))

\* a request took the byte cache's lock while another one's response was being
\* sent and has come to its end, and a response is still not sent completely
C19_Witness ==
    \E p, q \in Requests :
        /\ p # q
        /\ reqs[p].kind = "serve" /\ reqs[p].pc = "done" /\ reqs[p].overtook
        /\ reqs[q].pc = "streaming" /\ reqs[q].left > 0

(***************************************************************************)
(* SpecIter: the byte sequence of a file read, pulled item by item.  iter  *)
(* holds the source, the read position, the flags of the producer, the     *)
(* number of reads attempted and the items handed out so far.              *)
(***************************************************************************)
MaxSrcLen == 3      \* bytes in the source
MaxPolls == 5       \* items a consumer asks for

Data(chunk) == [tag |-> "data", bytes |-> chunk]
Err == [tag |-> "err", bytes |-> <<>>]
End == [tag |-> "end", bytes |-> <<>>]

\* the closure of FsFile::bytes_iter called once, with the is_failed test left out
bytes_iter_next_retry(it, fail) ==
    IF fail
    THEN [it EXCEPT !.reads = @ + 1, !.is_failed = TRUE, !.items = Append(@, Err)]
    ELSE LET chunk == ReadChunk(it.src, it.pos) IN
         IF chunk = <<>>
         THEN [it EXCEPT !.reads = @ + 1, !.items = Append(@, End)]
         ELSE [it EXCEPT !.reads = @ + 1, !.pos = @ + Len(chunk),
                         !.items = Append(@, Data(chunk))]

\* the closure of FsFile::bytes_iter called once (Iterator::next); fail: the
\* read it attempts, if any, fails
bytes_iter_next(it, fail) ==
    IF it.is_failed
    THEN [it EXCEPT !.items = Append(@, End)]
    ELSE IF fail
    THEN [it EXCEPT !.reads = @ + 1, !.is_failed = TRUE, !.items = Append(@, Err)]
    ELSE LET chunk == ReadChunk(it.src, it.pos) IN
         IF chunk = <<>>
         THEN [it EXCEPT !.reads = @ + 1, !.items = Append(@, End)]
         ELSE [it EXCEPT !.reads = @ + 1, !.pos = @ + Len(chunk),
                         !.items = Append(@, Data(chunk))]

\* the stream of stream_raw_bytes polled once: after the error was yielded the
\* generator resumes at the break and ends; once ended it stays ended
stream_raw_bytes_next(it, fail) ==
    IF it.finished
    THEN [it EXCEPT !.items = Append(@, End)]
    ELSE IF it.is_failed
    THEN [it EXCEPT !.finished = TRUE, !.items = Append(@, End)]
    ELSE IF fail
    THEN [it EXCEPT !.reads = @ + 1, !.is_failed = TRUE, !.items = Append(@, Err)]
    ELSE LET chunk == ReadChunk(it.src, it.pos) IN
         IF chunk = <<>>
         THEN [it EXCEPT !.reads = @ + 1, !.finished = TRUE, !.items = Append(@, End)]
         ELSE [it EXCEPT !.reads = @ + 1, !.pos = @ + Len(chunk),
                         !.items = Append(@, Data(chunk))]

InitIter ==
    /\ iter \in [kind : {"bytes_iter", "stream_raw_bytes"},
                 src : SeqsUpTo({0, 1}, MaxSrcLen),
                 pos : {0}, is_failed : {FALSE}, finished : {FALSE}, reads : {0},
                 items : {<<>>}]
    /\ reqs = None /\ locks = None /\ unlinked = None
    /\ IdleCache
    /\ IdlePath
    /\ IdleServer

\* the consumer asks the iterator for its next item
IterNext(fail) ==
    /\ iter.kind = "bytes_iter"
    /\ Len(iter.items) < MaxPolls
    /\ iter' = bytes_iter_next(iter, fail)
    /\ UNCHANGED <<cacheVars, pathVars, clock, serverVars, reqs, locks, unlinked>>

\* the consumer polls the stream for its next item
StreamPoll(fail) ==
    /\ iter.kind = "stream_raw_bytes"
    /\ Len(iter.items) < MaxPolls
    /\ iter' = stream_raw_bytes_next(iter, fail)
    /\ UNCHANGED <<cacheVars, pathVars, clock, serverVars, reqs, locks, unlinked>>

NextIter ==
    \/ \E fail \in BOOLEAN : IterNext(fail)
    \/ \E fail \in BOOLEAN : StreamPoll(fail)

SpecIter == InitIter /\ [][NextIter]_vars

\* an error item has been handed out
Errored(items) == \E i \in 1..Len(items) : items[i].tag = "err"

\* the sequence has not come to its end
Open(items) == \A i \in 1..Len(items) : items[i].tag = "data"

\* C20: a file read yields data chunks and then either end-of-stream or one
\* error item followed by end-of-stream: as long as only data chunks were
\* produced the next item is a data chunk, the end or an error, and once an
\* error item has been produced no read of the source is attempted and
\* nothing but end-of-stream is produced.  (Checked under SpecIter.)
C20_OneErrorThenEnd ==
    [][/\ Open(iter.items) =>
            /\ Len(iter'.items) = Len(iter.items) + 1
            /\ SubSeq(iter'.items, 1, Len(iter.items)) = iter.items
            /\ iter'.reads = iter.reads + 1
       /\ Errored(iter.items) =>
            /\ iter'.reads = iter.reads
            /\ iter'.items = Append(iter.items, End)]_vars

\* after a data chunk the second read failed; the consumer asked twice more and
\* got end-of-stream both times, with no further read
C20_Witness ==
    /\ Len(iter.items) = 4
    /\ iter.items[1].tag = "data"
    /\ iter.items[2].tag = "err"
    /\ iter.items[3].tag = "end"
    /\ iter.items[4].tag = "end"
    /\ iter.reads = 2

(***************************************************************************)
(* SpecRace: GET requests and uploads of one path running concurrently,    *)
(* one system call at a time.  serve_file reads the file through the       *)
(* handle File::open gave it, chunk by chunk; upload truncates the file    *)
(* and writes it chunk by chunk through its own handle.  The byte cache's  *)
(* mutex is held for one get or one insert, which are single steps here.   *)
(***************************************************************************)
Racers == 1..NumRequests

RacePath == <<"a">>

\* the root directory holds the file a, one byte long
RaceFs(base) ==
    [files |-> [at \in {Location(base \o RacePath)} |-> <<0>>],
     dirs |-> InitFs.dirs \cup {SubSeq(Location(base), 1, n) : n \in 0..Len(Location(base))},
     links |-> EmptyMap]

\* a handle on the file the name currently refers to; any other handle is the
\* id of the request that removed the name while the file was open
Linked == 0

NewRacer == [pc |-> "idle", kind |-> "none", key |-> None, src |-> <<>>, fail_at |-> 0,
             pos |-> 0, reads |-> 0, handle |-> None, buf |-> <<>>,
             digest |-> Sha256_new, file |-> None, result |-> "none"]

InitRace ==
    /\ base_path = <<"files">>
    /\ config \in [enabled : BOOLEAN, max_size_bytes : {MaxSizeBytes}]
    /\ fs = RaceFs(base_path)
    /\ file_cache = FileCache_new
    /\ store_cache = CacheMap_new(DefaultTtl, DefaultMaxSize)
    /\ resp = NoResp
    /\ clock = 0
    /\ cm = CacheMap_new(0, 0) /\ ret = NoRet /\ inserted_at = EmptyMap
    /\ IdlePath
    /\ reqs = [p \in Racers |-> NewRacer]
    /\ locks = None
    /\ iter = None
    /\ unlinked = EmptyMap

raceFrame == <<cacheVars, pathVars, clock, base_path, config, store_cache, resp, locks, iter>>

\* the bytes of the file behind the handle of request p
InodeContent(p) ==
    IF Unwrap(reqs[p].handle) = Linked
    THEN Content(fs, Unwrap(reqs[p].key))
    ELSE unlinked[Unwrap(reqs[p].handle)]

\* the unlinked files some handle of rq is still open on: the others are freed
StillOpen(rq, ul) ==
    [id \in {id \in DOMAIN ul : \E q \in Racers : rq[q].handle = Some(id)} |-> ul[id]]

\* write(2) of bytes at the handle's offset: a file shorter than the offset
\* (truncated by somebody else since) is filled with zeros up to it
WriteAt(content, offset, bytes) ==
    LET n == IF Len(content) > offset + Len(bytes) THEN Len(content)
             ELSE offset + Len(bytes)
    IN  [i \in 1..n |-> IF i > offset /\ i <= offset + Len(bytes) THEN bytes[i - offset]
                        ELSE IF i <= Len(content) THEN content[i]
                        ELSE 0]

\* a request arrives and its path is resolved (secure_virtual_path in
\* serve_file, full_path in upload)
RaceBegin(p, kind, src, fail_at) ==
    /\ reqs[p].pc = "idle"
    /\ reqs' = [reqs EXCEPT ![p] =
                  [NewRacer EXCEPT
                     !.kind = kind, !.src = src, !.fail_at = fail_at,
                     !.key = IF kind = "serve"
                             THEN secure_virtual_path(base_path, RacePath)
                             ELSE full_path(base_path, RacePath),
                     !.pc = IF kind = "serve" THEN "check" ELSE "create"]]
    /\ UNCHANGED <<raceFrame, fs, file_cache, unlinked>>

\* serve_file: 403 when resolution failed, 404 unless the target is a regular
\* file that is no symbolic link
RaceCheck(p) ==
    /\ reqs[p].pc = "check"
    /\ reqs' = [reqs EXCEPT
                  ![p].pc = IF reqs[p].key = None THEN "done"
                            ELSE IF \/ ~path_exists(fs, Unwrap(reqs[p].key))
                                    \/ ~is_file(fs, Unwrap(reqs[p].key))
                                    \/ is_symlink(fs, Unwrap(reqs[p].key))
                            THEN "done"
                            ELSE "get",
                  ![p].result = IF reqs[p].key = None THEN "403"
                                ELSE IF \/ ~path_exists(fs, Unwrap(reqs[p].key))
                                        \/ ~is_file(fs, Unwrap(reqs[p].key))
                                        \/ is_symlink(fs, Unwrap(reqs[p].key))
                                THEN "404"
                                ELSE "none"]
    /\ UNCHANGED <<raceFrame, fs, file_cache, unlinked>>

\* file_cache.lock().await.get(&file_path).cloned(): a hit is answered from
\* the entry, with its hash as ETag
RaceGet(p) ==
    /\ reqs[p].pc = "get"
    /\ LET hit == CacheMap_get(file_cache, Unwrap(reqs[p].key), clock)
       IN  /\ file_cache' = hit.cache
           /\ reqs' = IF IsSome(hit.value)
                      THEN [reqs EXCEPT ![p].pc = "done", ![p].file = hit.value,
                                        ![p].result = "200 etag"]
                      ELSE [reqs EXCEPT ![p].pc = "open"]
    /\ UNCHANGED <<raceFrame, fs, unlinked>>

\* File::open(&file_path)
RaceOpen(p) ==
    /\ reqs[p].pc = "open"
    /\ reqs' = IF is_file(fs, Unwrap(reqs[p].key))
               THEN [reqs EXCEPT ![p].pc = "size", ![p].handle = Some(Linked)]
               ELSE [reqs EXCEPT ![p].pc = "done", ![p].result = "500"]
    /\ UNCHANGED <<raceFrame, fs, file_cache, unlinked>>

\* file_path.metadata() by name, and the threshold test
RaceSize(p) ==
    /\ reqs[p].pc = "size"
    /\ reqs' = [reqs EXCEPT
                  ![p].pc = IF /\ config.enabled
                               /\ is_file(fs, Unwrap(reqs[p].key))
                               /\ Len(Content(fs, Unwrap(reqs[p].key))) <= config.max_size_bytes
                            THEN "read_all"
                            ELSE "streaming"]
    /\ UNCHANGED <<raceFrame, fs, file_cache, unlinked>>

\* one reader.read of stream_raw_bytes, polled by try_concat (read_all) or by
\* the response body (streaming); at EOF try_concat returns what it gathered
\* and CachedFileEntry::new hashes it
RaceRead(p, ok) ==
    /\ reqs[p].pc \in {"read_all", "streaming"}
    /\ LET chunk == ReadChunk(InodeContent(p), reqs[p].pos)
           caching == reqs[p].pc = "read_all"
       IN  reqs' =
             IF ~ok
             THEN [reqs EXCEPT ![p].pc = "done", ![p].handle = None, ![p].pos = 0,
                               ![p].buf = <<>>,
                               ![p].result = IF caching THEN "500" ELSE "200 aborted"]
             ELSE IF chunk = <<>>
             THEN [reqs EXCEPT ![p].pc = IF caching THEN "insert" ELSE "done",
                               ![p].handle = None, ![p].pos = 0, ![p].buf = <<>>,
                               ![p].file = IF caching
                                           THEN Some(CachedFileEntry_new(reqs[p].buf))
                                           ELSE None,
                               ![p].result = IF caching THEN "none" ELSE "200 streamed"]
             ELSE [reqs EXCEPT ![p].pos = @ + Len(chunk),
                               ![p].buf = IF caching THEN @ \o chunk ELSE <<>>]
    /\ unlinked' = StillOpen(reqs', unlinked)
    /\ UNCHANGED <<raceFrame, fs, file_cache>>

\* file_cache.lock().await.insert(file_path, file_entry) and return response
RaceInsert(p) ==
    /\ reqs[p].pc = "insert"
    /\ \E r \in CacheMap_insert(file_cache, Unwrap(reqs[p].key),
                                Unwrap(reqs[p].file), clock) :
          file_cache' = r.cache
    /\ reqs' = [reqs EXCEPT ![p].pc = "done", ![p].result = "200 etag"]
    /\ UNCHANGED <<raceFrame, fs, unlinked>>

\* FsFileStore::upload up to File::create, which truncates an existing file
UploadCreate(p) ==
    /\ reqs[p].pc = "create"
    /\ LET valid == IsSome(reqs[p].key) /\ is_valid_path(base_path, Unwrap(reqs[p].key))
           target == Unwrap(reqs[p].key)
           made == create_dir_all(fs, Parent(target))
           created == File_create(made.fs, target)
       IN  IF ~valid
           THEN /\ reqs' = [reqs EXCEPT ![p].pc = "done", ![p].result = "InvalidInput"]
                /\ fs' = fs
           ELSE IF ~made.ok
           THEN /\ reqs' = [reqs EXCEPT ![p].pc = "done", ![p].result = "CreateDirError"]
                /\ fs' = made.fs
           ELSE IF ~created.ok
           THEN /\ reqs' = [reqs EXCEPT ![p].pc = "done", ![p].result = "CreateError"]
                /\ fs' = created.fs
           ELSE /\ reqs' = [reqs EXCEPT ![p].pc = "transfer", ![p].reads = 1,
                                        ![p].handle = Some(Linked)]
                /\ fs' = created.fs
    /\ UNCHANGED <<raceFrame, file_cache, unlinked>>

\* one round of the transfer loop: reader.read, then target_file.write and
\* digest.update; the read or write numbered fail_at fails, and then the name
\* is removed while the file stays with whoever has it open
UploadChunk(p) ==
    /\ reqs[p].pc = "transfer"
    /\ LET target == Unwrap(reqs[p].key)
           bytes == ReadChunk(reqs[p].src, reqs[p].pos)
           gone == remove_file(fs, target)
           holders == {q \in Racers \ {p} : reqs[q].handle = Some(Linked)}
       IN  IF reqs[p].reads = reqs[p].fail_at
           THEN /\ fs' = gone.fs
                /\ reqs' = [q \in Racers |->
                              IF q = p
                              THEN [reqs[p] EXCEPT !.pc = "done", !.handle = None,
                                                   !.pos = 0, !.reads = 0,
                                                   !.digest = Sha256_new,
                                                   !.result = "TransferError"]
                              ELSE IF gone.ok /\ q \in holders
                              THEN [reqs[q] EXCEPT !.handle = Some(p)]
                              ELSE reqs[q]]
                /\ unlinked' = StillOpen(reqs',
                                  IF gone.ok /\ reqs[p].handle = Some(Linked)
                                  THEN MapInsert(unlinked, p, Content(fs, target))
                                  ELSE unlinked)
           ELSE IF bytes = <<>>
           THEN /\ fs' = fs
                /\ reqs' = [reqs EXCEPT ![p].pc = "sidecar", ![p].handle = None]
                /\ unlinked' = StillOpen(reqs', unlinked)
           ELSE /\ reqs' = [reqs EXCEPT ![p].pos = @ + Len(bytes),
                                        ![p].reads = @ + 1,
                                        ![p].digest = Sha256_update(@, bytes)]
                /\ IF Unwrap(reqs[p].handle) = Linked
                   THEN /\ fs' = [fs EXCEPT !.files[Resolve(fs, target)] =
                                     WriteAt(@, reqs[p].pos, bytes)]
                        /\ unlinked' = unlinked
                   ELSE /\ fs' = fs
                        /\ unlinked' = [unlinked EXCEPT ![Unwrap(reqs[p].handle)] =
                                          WriteAt(@, reqs[p].pos, bytes)]
    /\ UNCHANGED <<raceFrame, file_cache>>

\* File::create(&metadata_path), serde_json::to_writer and Ok(())
UploadSidecar(p) ==
    /\ reqs[p].pc = "sidecar"
    /\ LET target == Unwrap(reqs[p].key)
           metadata == [hash |-> hash_to_hex(reqs[p].digest), size_bytes |-> reqs[p].pos]
           sidecar == File_create(fs, metadata_path(target))
       IN  IF ~sidecar.ok
           THEN /\ fs' = sidecar.fs
                /\ reqs' = [reqs EXCEPT ![p].pc = "done", ![p].result = "SidecarError"]
           ELSE /\ fs' = File_write(sidecar.fs, metadata_path(target), to_writer(metadata))
                /\ reqs' = [reqs EXCEPT ![p].pc = "done", ![p].pos = 0, ![p].reads = 0,
                                        ![p].digest = Sha256_new, ![p].result = "Ok"]
    /\ UNCHANGED <<raceFrame, file_cache, unlinked>>

NextRace ==
    \/ \E p \in Racers : RaceBegin(p, "serve", <<>>, 0)
    \/ \E p \in Racers, src \in Payloads, fail_at \in FailAt :
          RaceBegin(p, "upload", src, fail_at)
    \/ \E p \in Racers : RaceCheck(p)
    \/ \E p \in Racers : RaceGet(p)
    \/ \E p \in Racers : RaceOpen(p)
    \/ \E p \in Racers : RaceSize(p)
    \/ \E p \in Racers, ok \in BOOLEAN : RaceRead(p, ok)
    \/ \E p \in Racers : RaceInsert(p)
    \/ \E p \in Racers : UploadCreate(p)
    \/ \E p \in Racers : UploadChunk(p)
    \/ \E p \in Racers : UploadSidecar(p)

SpecRace == InitRace /\ [][NextRace]_vars

(***************************************************************************)
(* Claims about GET requests racing with uploads, checked under SpecRace.  *)
(***************************************************************************)
\* C23: in every reachable state every entry of the byte cache is at most
\* max_size_bytes long, under all interleavings of GET requests with uploads
\* to the same path.
C23_CachedEntriesWithinThreshold ==
    \A k \in DOMAIN file_cache.inner :
        Len(file_cache.inner[k].inner.bytes) <= config.max_size_bytes

\* what the file holds in full: its initial content, or all the bytes some
\* upload to the path was sent
Complete ==
    {Content(RaceFs(base_path), base_path \o RacePath)}
        \cup {reqs[p].src : p \in {q \in Racers : reqs[q].kind = "upload"}}

\* C24: the bytes of a byte-cache entry are always the complete content of the
\* file, as it was initially or as an upload left it: a GET racing with an
\* upload never caches, or returns with an ETag, a truncated or partly written
\* file.
C24_CachedBytesAreComplete ==
    /\ \A k \in DOMAIN file_cache.inner : file_cache.inner[k].inner.bytes \in Complete
    /\ \A p \in Racers :
          reqs[p].result = "200 etag" => Unwrap(reqs[p].file).bytes \in Complete

====
